---- MODULE Spec2Model ----
(***************************************************************************)
(* PlantLeafDisease: the model cache (core/ml_model.py get_detector), the  *)
(* classifier (PlantDiseaseDetector), the subprocess runner                *)
(* (predict_via_subprocess, imported by core/views.py), the HTTP endpoints *)
(* of core/views.py and the warm-up command, their calls running on        *)
(* threads that share the singleton and MEDIA_ROOT.                        *)
(***************************************************************************)
EXTENDS Integers, Sequences, FiniteSets, TLC

VARIABLES
  \* ---- model cache, core/ml_model.py:254-271
  detector_instance,  \* _detector_instance: 0 is None, n > 0 the n-th object built
  detector_lock,      \* _detector_lock: 0 is free, t the thread holding it
  pc,                 \* per thread: its position inside get_detector
  tmp,                \* per thread: the object PlantDiseaseDetector() just built
  ret,                \* per thread: what its last get_detector call returned
  built,              \* how many PlantDiseaseDetector objects were constructed
  \* ---- classifier singleton, MEDIA_ROOT and the calls in flight
  detector,           \* the fields of the singleton PlantDiseaseDetector
  media_root,         \* MEDIA_ROOT: what each file name holds
  calls,              \* per thread: the call it is in, its position and locals
  initOk,             \* some /api/initialize-model call has answered "success"
  healthOk,           \* some GET /health call has answered 200
  \* ---- the inference child run as a script
  last,               \* the last run: its arguments and what it ended with
  \* ---- subprocess runner
  rpc,                \* the parent's position inside predict_via_subprocess
  rarg,               \* the call's arguments
  child,              \* the child process: none, running, exited, terminated
  clock,              \* seconds elapsed since the child was launched
  rout                \* the call's outcome

cacheVars == <<detector_instance, detector_lock, pc, tmp, ret, built>>
appVars == <<detector, media_root, calls, initOk, healthOk, last>>
runVars == <<rpc, rarg, child, clock, rout>>
vars == <<detector_instance, detector_lock, pc, tmp, ret, built,
          detector, media_root, calls, initOk, healthOk, last,
          rpc, rarg, child, clock, rout>>

\* ------------------------------------------------------------------ bounds

\* Request-handling threads calling get_detector concurrently.
NumThreads == 3

Threads == 1..NumThreads

\* The longest timeout_seconds a caller hands to predict_via_subprocess.
MaxTimeout == 2

\* Output scores are multiples of 1/ScoreDen: 0 is 0.0 and ScoreDen is 1.0.
ScoreDen == 2

\* The longest list of image paths handed to predict_batch.
MaxBatch == 2

\* ------------------------------------------------------ model cache

\* ml_model.py:255-256
InitCache ==
  /\ detector_instance = 0
  /\ detector_lock = 0
  /\ pc = [t \in Threads |-> "idle"]
  /\ tmp = [t \in Threads |-> 0]
  /\ ret = [t \in Threads |-> 0]
  /\ built = 0

\* A thread enters get_detector.
Call(t) ==
  /\ pc[t] \in {"idle", "done"}
  /\ pc' = [pc EXCEPT ![t] = "check1"]
  /\ ret' = [ret EXCEPT ![t] = 0]
  /\ UNCHANGED <<detector_instance, detector_lock, tmp, built>>
  /\ UNCHANGED <<appVars, runVars>>

\* ml_model.py:267  if _detector_instance is None:
Check1(t) ==
  /\ pc[t] = "check1"
  /\ pc' = [pc EXCEPT ![t] = IF detector_instance = 0 THEN "acquire" ELSE "return"]
  /\ UNCHANGED <<detector_instance, detector_lock, tmp, ret, built>>
  /\ UNCHANGED <<appVars, runVars>>

\* The lock taken without waiting for its holder.
AcquireNoLock(t) ==
  /\ pc[t] = "acquire"
  /\ detector_lock' = t
  /\ pc' = [pc EXCEPT ![t] = "check2"]
  /\ UNCHANGED <<detector_instance, tmp, ret, built>>
  /\ UNCHANGED <<appVars, runVars>>

\* ml_model.py:268  with _detector_lock:   (entry: blocks while the lock is held)
Acquire(t) ==
  /\ pc[t] = "acquire"
  /\ detector_lock = 0
  /\ detector_lock' = t
  /\ pc' = [pc EXCEPT ![t] = "check2"]
  /\ UNCHANGED <<detector_instance, tmp, ret, built>>
  /\ UNCHANGED <<appVars, runVars>>

\* ml_model.py:269  if _detector_instance is None:
Check2(t) ==
  /\ pc[t] = "check2"
  /\ pc' = [pc EXCEPT ![t] = IF detector_instance = 0 THEN "construct" ELSE "release"]
  /\ UNCHANGED <<detector_instance, detector_lock, tmp, ret, built>>
  /\ UNCHANGED <<appVars, runVars>>

\* ml_model.py:270  PlantDiseaseDetector()   (the right-hand side)
Construct(t) ==
  /\ pc[t] = "construct"
  /\ built' = built + 1
  /\ tmp' = [tmp EXCEPT ![t] = built + 1]
  /\ pc' = [pc EXCEPT ![t] = "assign"]
  /\ UNCHANGED <<detector_instance, detector_lock, ret>>
  /\ UNCHANGED <<appVars, runVars>>

\* ml_model.py:270  _detector_instance = ...   (the store)
Assign(t) ==
  /\ pc[t] = "assign"
  /\ detector_instance' = tmp[t]
  /\ pc' = [pc EXCEPT ![t] = "release"]
  /\ UNCHANGED <<detector_lock, tmp, ret, built>>
  /\ UNCHANGED <<appVars, runVars>>

\* ml_model.py:268  with _detector_lock:   (exit)
Release(t) ==
  /\ pc[t] = "release"
  /\ detector_lock' = 0
  /\ pc' = [pc EXCEPT ![t] = "return"]
  /\ UNCHANGED <<detector_instance, tmp, ret, built>>
  /\ UNCHANGED <<appVars, runVars>>

\* ml_model.py:271  return _detector_instance
Return(t) ==
  /\ pc[t] = "return"
  /\ ret' = [ret EXCEPT ![t] = detector_instance]
  /\ pc' = [pc EXCEPT ![t] = "done"]
  /\ UNCHANGED <<detector_instance, detector_lock, tmp, built>>
  /\ UNCHANGED <<appVars, runVars>>

\* ml_model.py:259-271  get_detector, one step of one thread at a time.
NextCache ==
  \/ \E t \in Threads : Call(t)
  \/ \E t \in Threads : Check1(t)
  \/ \E t \in Threads : Acquire(t)
  \/ \E t \in Threads : Check2(t)
  \/ \E t \in Threads : Construct(t)
  \/ \E t \in Threads : Assign(t)
  \/ \E t \in Threads : Release(t)
  \/ \E t \in Threads : Return(t)

\* ------------------------------------------------------ fixtures

\* A dimension the model leaves open (None in a Keras input shape).
NoneDim == 0 - 1

\* The model files on disk: what keras.models.load_model yields for each path.
\* input_shape is the loaded model's declared shape, classes its output width,
\* name_eff whether its name contains "efficientnet" and layers_eff whether the
\* name of one of its first six layers does: M2 is a model as
\* train_from_notebook.py builds it, an EfficientNetB0 base inside a model
\* with a name of its own, and M3 carries the word in its name alone.
ModelFiles ==
  [p \in {"m1.keras", "m2.h5", "m3.keras"} |->
     CASE p = "m1.keras" -> [model |-> "M1", input_shape |-> <<NoneDim, 96, 128, 3>>,
                             classes |-> 3, name_eff |-> FALSE, layers_eff |-> FALSE]
       [] p = "m2.h5"    -> [model |-> "M2", input_shape |-> <<NoneDim, 3, 64, 48>>,
                             classes |-> 2, name_eff |-> FALSE, layers_eff |-> TRUE]
       [] p = "m3.keras" -> [model |-> "M3", input_shape |-> <<NoneDim, 10>>,
                             classes |-> 2, name_eff |-> TRUE, layers_eff |-> FALSE]]

\* Paths handed to load_model: good files, a file Keras cannot read, no file.
ModelPaths == {"m1.keras", "m2.h5", "m3.keras", "bad.keras", "gone.keras"}

\* The label files on disk that hold a JSON object.
LabelFiles ==
  [p \in {"l1.json", "l2.json"} |->
     IF p = "l1.json"
       THEN ("0" :> "Tomato___Early_blight") @@ ("1" :> "Tomato___Late_blight")
            @@ ("2" :> "Tomato___healthy")
       ELSE ("1" :> "Potato___healthy")]

\* Paths handed to load_class_indices: good files, invalid JSON, no file.
LabelPaths == {"l1.json", "l2.json", "bad.json", "gone.json"}

\* os.path.exists
Exists(p) == p \in (DOMAIN ModelFiles) \cup (DOMAIN LabelFiles) \cup {"bad.keras", "bad.json"}

\* What an image path holds: a decodable picture, bytes PIL cannot decode, nothing.
Images == {"leaf", "junk", "missing"}

ModelOf(m) == ModelFiles[CHOOSE p \in DOMAIN ModelFiles : ModelFiles[p].model = m]

\* What one forward pass (model.predict) can do: raise, or yield one score per
\* class, each in [0,1] (the terminal softmax the classifier relies on).
ForwardOutcomes(m) ==
  {[raise |-> TRUE, scores |-> <<>>]}
    \cup {[raise |-> FALSE, scores |-> v] : v \in [1..ModelOf(m).classes -> 0..ScoreDen]}

\* The same, narrowed to three outcomes: a raise, or all the weight on the
\* first or on the last class.
CoarseOutcomes(m) ==
  {[raise |-> TRUE, scores |-> <<>>]}
    \cup {[raise |-> FALSE,
           scores |-> [j \in 1..ModelOf(m).classes |-> IF j = w THEN ScoreDen ELSE 0]] :
            w \in {1, ModelOf(m).classes}}

\* ------------------------------------------------------ classifier

\* ml_model.py:26-36  PlantDiseaseDetector.__init__
NewDetector ==
  [model |-> "None", model_path |-> "None", class_indices |-> "None",
   image_size |-> <<224, 224>>]

\* ml_model.py:84-102: the (width, height) read off a declared input shape, or
\* `cur` when the shape does not give one.
InferImageSize(input_shape, cur) ==
  IF Len(input_shape) >= 3
    THEN LET shape_list == IF input_shape[1] = NoneDim THEN Tail(input_shape)
                                                       ELSE input_shape
             n == Len(shape_list)
         IN  IF n = 3 /\ (shape_list[n] = 1 \/ shape_list[n] = 3)
               THEN IF shape_list[1] = NoneDim \/ shape_list[2] = NoneDim
                      THEN cur      \* int(None) raises, caught at line 100
                      ELSE <<shape_list[2], shape_list[1]>>
               ELSE IF n = 3 /\ (shape_list[1] = 1 \/ shape_list[1] = 3)
                 THEN IF shape_list[2] = NoneDim \/ shape_list[3] = NoneDim
                        THEN cur
                        ELSE <<shape_list[3], shape_list[2]>>
                 ELSE cur
    ELSE cur

\* ml_model.py:38-118  PlantDiseaseDetector.load_model: the detector afterwards
\* and the value returned.
LoadModel(self, model_path) ==
  IF model_path \in DOMAIN ModelFiles
    THEN [self |-> [self EXCEPT !.model = ModelFiles[model_path].model,
                                !.model_path = model_path,
                                !.image_size = InferImageSize(
                                   ModelFiles[model_path].input_shape, self.image_size)],
          ret |-> TRUE]
    ELSE [self |-> self, ret |-> FALSE]   \* load_model raised: lines 115-118

\* ml_model.py:120-132  PlantDiseaseDetector.load_class_indices: the detector
\* afterwards and whether the file was read (the method itself returns None).
LoadClassIndices(self, json_path) ==
  IF json_path \in DOMAIN LabelFiles
    THEN [self |-> [self EXCEPT !.class_indices = json_path], ok |-> TRUE]
    ELSE [self |-> self, ok |-> FALSE]    \* open or json.load raised: line 131

\* The label map the detector holds (class_indices names the file it was read from).
LabelMap(self) == LabelFiles[self.class_indices]

\* The None that preprocess_image returns for an image it cannot open.
NoneTensor == [size |-> <<0, 0>>, norm |-> "None"]

\* ml_model.py:161  'efficientnet' in model_name, the name of the model held
\* (the empty string when none is).
NameHasEfficientNet(m) == m # "None" /\ ModelOf(m).name_eff

\* ml_model.py:162  any('efficientnet' in n for n in layer_names), the names
\* of the first six layers of the model held (none when no model is).
LayersHaveEfficientNet(m) == m # "None" /\ ModelOf(m).layers_eff

\* ml_model.py:134-188  PlantDiseaseDetector.preprocess_image: None, or the
\* tensor's size and the normalisation applied to it.
PreprocessImage(self, image) ==
  IF image # "leaf"
    THEN NoneTensor       \* the except branch, lines 186-188
    ELSE [size |-> self.image_size,
          norm |-> IF NameHasEfficientNet(self.model)
                        \/ LayersHaveEfficientNet(self.model)
                     THEN "efficientnet" ELSE "div255"]

\* The index of the smallest score.
ArgMin(scores) ==
  CHOOSE i \in 0..(Len(scores) - 1) :
    /\ \A j \in 0..(Len(scores) - 1) : scores[j + 1] >= scores[i + 1]
    /\ \A j \in 0..(i - 1) : scores[j + 1] > scores[i + 1]

\* np.argmax: the first index (from 0) holding the largest score.
ArgMax(scores) ==
  CHOOSE i \in 0..(Len(scores) - 1) :
    /\ \A j \in 0..(Len(scores) - 1) : scores[j + 1] <= scores[i + 1]
    /\ \A j \in 0..(i - 1) : scores[j + 1] < scores[i + 1]

\* str(predicted_class_idx)
Str(i) == <<"0", "1", "2", "3", "4", "5", "6", "7", "8", "9">>[i + 1]

\* dict.get(key, default)
Get(d, key, default) == IF key \in DOMAIN d THEN d[key] ELSE default

ModelNotLoaded == [error |-> "Model not loaded. Please load a model first."]

\* ml_model.py:203-234: predict once the model is known to be loaded.
PredictBody(self, image, fwd) ==
  IF PreprocessImage(self, image) = NoneTensor
    THEN [error |-> "Failed to process image"]
    ELSE IF fwd.raise
      THEN [error |-> "Prediction failed"]
      ELSE LET predicted_class_idx == ArgMax(fwd.scores)
               confidence == fwd.scores[predicted_class_idx + 1]
               predicted_class_name ==
                 IF self.class_indices # "None" /\ DOMAIN LabelMap(self) # {}
                   THEN Get(LabelMap(self), Str(predicted_class_idx), "Unknown")
                   ELSE "Unknown"
           IN  [disease |-> predicted_class_name,
                confidence |-> confidence,
                all_predictions |->
                  [class_index |-> predicted_class_idx,
                   confidence_scores |-> fwd.scores]]

\* ml_model.py:190-234  PlantDiseaseDetector.predict; fwd is what the forward
\* pass at line 211 does.
Predict(self, image, fwd) ==
  IF self.model = "None"
    THEN ModelNotLoaded
    ELSE PredictBody(self, image, fwd)

\* The forward passes a detector can see: none is run while no model is held.
Forwards(self) ==
  IF self.model = "None" THEN {[raise |-> TRUE, scores |-> <<>>]}
                         ELSE ForwardOutcomes(self.model)

\* ------------------------------------------------------ subprocess runner

\* The paths the child falls back on when the caller gives none.
DefaultModelPath == "m1.keras"
DefaultLabelPath == "l1.json"

\* json.dumps / json.loads: standard output is text, JSON or not.
JsonDumps(v) == <<"json", v>>
IsJson(text) == text[1] = "json"
JsonLoads(text) == text[2]

\* The detector the child builds: a fresh one, the model and the label map loaded.
ChildDetector(model_path) ==
  LET mp == IF model_path = "None" THEN DefaultModelPath ELSE model_path
      d1 == LoadModel(NewDetector, mp).self
  IN  LoadClassIndices(d1, DefaultLabelPath).self

\* What the child process can end with for one call: the prediction of section
\* 4.2 written as one JSON object, text that is no JSON, or a failed exit with
\* or without a JSON diagnostic.  The child is the process section 4.3
\* describes; the script shipped as core/inference_subprocess.py is followed by
\* RunScript below, and what it does on every run, exit status 1 with nothing
\* on standard output, is one of these outcomes.
ChildOutcomes(image, model_path) ==
  {[exit |-> 0, stdout |-> JsonDumps(Predict(ChildDetector(model_path), image, fwd))] :
     fwd \in Forwards(ChildDetector(model_path))}
    \cup {[exit |-> 0, stdout |-> <<"text", "Traceback">>],
          [exit |-> 1, stdout |-> <<"text", "">>],
          [exit |-> 4, stdout |-> JsonDumps([error |-> "Failed to load model"])]}

\* The parent parsing whatever JSON the child printed, its exit status unread.
ParentResultIgnoresExit(timed_out, exit, stdout) ==
  IF timed_out
    THEN [error |-> "Timeout"]
    ELSE IF ~IsJson(stdout)
      THEN [error |-> "SubprocessFailure"]
      ELSE JsonLoads(stdout)

\* The parent's answer once the child is gone: timed_out when it had to be
\* terminated, otherwise its exit status and standard output.
ParentResult(timed_out, exit, stdout) ==
  IF timed_out
    THEN [error |-> "Timeout"]
    ELSE IF exit # 0 \/ ~IsJson(stdout)
      THEN [error |-> "SubprocessFailure"]
      ELSE JsonLoads(stdout)

\* Every way one predict_via_subprocess call can end: with the result made of
\* what the child left, or with the Timeout result.  No outcome is an
\* exception.
RunnerOutcomes(image, model_path) ==
  {[raised |-> FALSE, result |-> ParentResult(FALSE, c.exit, c.stdout)] :
     c \in ChildOutcomes(image, model_path)}
    \cup {[raised |-> FALSE, result |-> ParentResult(TRUE, 0, <<"text", "">>)]}

\* ------------------------------------------------------ inference child

\* inference_subprocess.py:43-68: the try statement opened at line 43 is closed
\* by no except or finally clause, so the interpreter rejects the file
\* (SyntaxError at line 68) before any statement of it runs.
SourceCompiles == FALSE

\* sys.argv[1:] of the script: "None" is an argument that is absent (or, for
\* the two paths, empty).  No path can follow an absent image argument.
ScriptArgs ==
  {[image |-> "None", model_path |-> "None", class_indices_path |-> "None"]}
    \cup {[image |-> i, model_path |-> m, class_indices_path |-> c] :
            i \in Images, m \in ModelPaths \cup {"None"}, c \in LabelPaths \cup {"None"}}

\* The tensors a model can be fed: the image at the model's size, under either
\* normalisation.
TensorsOf(m) ==
  {[size |-> InferImageSize(ModelOf(m).input_shape, <<224, 224>>), norm |-> n] :
     n \in {"div255", "efficientnet"}}

\* model.predict as a function of the tensor it is given; no forward pass is
\* run when the path names no readable model.
ScriptForwards(model_path) ==
  IF model_path \in DOMAIN ModelFiles
    THEN [TensorsOf(ModelFiles[model_path].model)
            -> CoarseOutcomes(ModelFiles[model_path].model)]
    ELSE {<<>>}

\* inference_subprocess.py:35-38  _LocalDetector.__init__
LocalNewDetector ==
  [model |-> "None", class_indices |-> "None", image_size |-> <<224, 224>>]

\* inference_subprocess.py:59-66: the size read off the input shape.  An open
\* height or width (int(None)) raises inside the try of line 43; no model file
\* above declares one.
LocalInferImageSize(inp, cur) ==
  IF Len(inp) >= 3
    THEN LET sl == IF inp[1] = NoneDim THEN Tail(inp) ELSE inp
             n == Len(sl)
         IN  IF n = 3 /\ (sl[n] = 1 \/ sl[n] = 3)
               THEN IF sl[1] = NoneDim \/ sl[2] = NoneDim THEN cur
                                                          ELSE <<sl[2], sl[1]>>
               ELSE IF n = 3 /\ (sl[1] = 1 \/ sl[1] = 3)
                 THEN IF sl[2] = NoneDim \/ sl[3] = NoneDim THEN cur
                                                            ELSE <<sl[3], sl[2]>>
                 ELSE cur
    ELSE cur

\* inference_subprocess.py:40-66  _LocalDetector.load_model: raises when Keras
\* cannot read the file (line 41).
LocalLoadModel(self, p) ==
  IF p \in DOMAIN ModelFiles
    THEN [raised |-> FALSE,
          self |-> [self EXCEPT !.model = ModelFiles[p].model,
                                !.image_size = LocalInferImageSize(
                                   ModelFiles[p].input_shape, self.image_size)]]
    ELSE [raised |-> TRUE, self |-> self]

\* inference_subprocess.py:68-73  _LocalDetector.load_class_indices
LocalLoadClassIndices(self, jp) ==
  IF jp \in DOMAIN LabelFiles
    THEN [self EXCEPT !.class_indices = jp]
    ELSE self

\* inference_subprocess.py:75-82  _LocalDetector.preprocess: raises on an image
\* PIL cannot open, otherwise the pixels divided by 255 whatever the model.
LocalPreprocess(self, image) ==
  IF image # "leaf"
    THEN [raised |-> TRUE, x |-> NoneTensor]
    ELSE [raised |-> FALSE, x |-> [size |-> self.image_size, norm |-> "div255"]]

\* inference_subprocess.py:84-94  _LocalDetector.predict
LocalPredict(self, image, fwd) ==
  IF self.model = "None"
    THEN [raised |-> FALSE, res |-> [error |-> "Model not loaded"]]
    ELSE IF LocalPreprocess(self, image).raised
      THEN [raised |-> TRUE, res |-> [error |-> "None"]]
      ELSE LET preds == fwd[LocalPreprocess(self, image).x]
           IN  IF preds.raise
                 THEN [raised |-> TRUE, res |-> [error |-> "None"]]
                 ELSE LET idx == ArgMax(preds.scores)
                          conf == preds.scores[idx + 1]
                          name == IF self.class_indices # "None"
                                       /\ DOMAIN LabelFiles[self.class_indices] # {}
                                    THEN Get(LabelFiles[self.class_indices],
                                             Str(idx), "Unknown")
                                    ELSE "Unknown"
                      IN  [raised |-> FALSE,
                           res |-> [disease |-> name, confidence |-> conf,
                                    class_index |-> idx]]

\* inference_subprocess.py:14-117  main, statement by statement: the exit
\* status and the lines printed to standard output.
Main(argv, imports_ok, fwd) ==
  IF argv.image = "None"
    THEN [exit |-> 2, stdout |-> <<JsonDumps([error |-> "image_path required"])>>]
    ELSE IF ~imports_ok
      THEN [exit |-> 3, stdout |-> <<JsonDumps([error |-> "Failed to import TF/PIL"])>>]
      ELSE LET lm == IF argv.model_path # "None" /\ Exists(argv.model_path)
                       THEN LocalLoadModel(LocalNewDetector, argv.model_path)
                       ELSE [raised |-> FALSE, self |-> LocalNewDetector]
               d == IF argv.class_indices_path # "None"
                         /\ Exists(argv.class_indices_path)
                      THEN LocalLoadClassIndices(lm.self, argv.class_indices_path)
                      ELSE lm.self
               p == LocalPredict(d, argv.image, fwd)
           IN  IF lm.raised
                 THEN [exit |-> 4,
                       stdout |-> <<JsonDumps([error |-> "Failed to load model"])>>]
                 ELSE IF p.raised
                   THEN [exit |-> 5,
                         stdout |-> <<JsonDumps([error |-> "Prediction failed"])>>]
                   ELSE [exit |-> 0, stdout |-> <<JsonDumps(p.res)>>]

\* ml_model.py:38-234: what the in-process classifier answers for the same
\* files: a fresh PlantDiseaseDetector, load_model, load_class_indices, then
\* predict, the forward pass fed the tensor preprocess_image built.
ClassifierOutcome(argv, fwd) ==
  LET d == LoadClassIndices(LoadModel(NewDetector, argv.model_path).self,
                            argv.class_indices_path).self
  IN  IF d.model = "None" \/ PreprocessImage(d, argv.image) = NoneTensor
        THEN Predict(d, argv.image, [raise |-> TRUE, scores |-> <<>>])
        ELSE Predict(d, argv.image, fwd[PreprocessImage(d, argv.image)])

\* inference_subprocess.py:96-117: what _LocalDetector's load, preprocess and
\* predict answer, as main prints it, once the imports have succeeded.
LocalDetectorOutcome(argv, fwd) == JsonLoads(Main(argv, TRUE, fwd).stdout[1])

\* python inference_subprocess.py <argv>: a file that does not compile ends the
\* interpreter with status 1 and a traceback on standard error only.
RunScript(argv, imports_ok, fwd) ==
  IF SourceCompiles THEN Main(argv, imports_ok, fwd)
                    ELSE [exit |-> 1, stdout |-> <<>>]

\* ------------------------------------------------------ HTTP endpoints

\* views.py:31-42  health
Health(self) ==
  IF self.model # "None"
    THEN [status |-> 200, body |-> [status |-> "ok", model_loaded |-> TRUE]]
    ELSE [status |-> 503, body |-> [status |-> "starting", model_loaded |-> FALSE]]

\* Request bodies of POST /api/initialize-model: text that is no JSON, JSON that
\* is no object (a list), or an object whose absent keys read as "None".
InitBodies ==
  {[json |-> FALSE, is_object |-> FALSE, model_path |-> "None",
    class_indices_path |-> "None"],
   [json |-> TRUE, is_object |-> FALSE, model_path |-> "None",
    class_indices_path |-> "None"]}
    \cup {[json |-> TRUE, is_object |-> TRUE, model_path |-> m,
           class_indices_path |-> c] :
            m \in {"m1.keras", "m2.h5", "bad.keras", "gone.keras", "None"},
            c \in {"l1.json", "l2.json", "gone.json", "None"}}

\* str(e) of the AttributeError that data.get raises on a list (views.py:144).
ListHasNoGet == "'list' object has no attribute 'get'"

\* views.py:194  f'Error: {str(e)}'
ErrorMessage(e) == "Error: " \o e

\* The bytes of a leaf picture, and of a longer file that is no picture.
LeafBytes == <<"L1", "L2">>
JunkBytes == <<"J1", "J2", "J3">>

\* uploaded_file.chunks() (views.py:62): the pieces an upload is handed over
\* in, one for an upload held in memory and several for a larger one.
UploadChunks == {<<LeafBytes>>, <<<<"L1">>, <<"L2">>>>, <<JunkBytes>>}

\* The names and contents of uploads.
UploadNames == {"a.jpg", "b.jpg"}
Uploads == {[name |-> n, chunks |-> c] : n \in UploadNames, c \in UploadChunks}

\* Requests to /: a GET, a POST with no image field, a POST with an upload.
NoUpload == [name |-> "None", chunks |-> <<>>]
IndexRequests ==
  {[method |-> "GET", image |-> NoUpload], [method |-> "POST", image |-> NoUpload]}
    \cup {[method |-> "POST", image |-> u] : u \in Uploads}

\* The response of index for a prediction that came back: views.py:94-105.
IndexResponse(prediction) ==
  IF "error" \in DOMAIN prediction
    THEN [status |-> 200,
          body |-> [success |-> FALSE, error |-> prediction.error]]
    ELSE [status |-> 200,
          body |-> [success |-> TRUE,
                    predicted_class |-> prediction.disease,
                    confidence |-> prediction.confidence * 100,
                    message |-> <<"Detected", prediction.disease,
                                  prediction.confidence>>]]
\* ------------------------------------------------------ calls in flight

\* The threads of the server process that run calls, two of Threads.  Each
\* runs one call at a time; the steps of their calls interleave on the
\* singleton and on MEDIA_ROOT, which no lock protects (only get_detector takes
\* _detector_lock).
Callers == {1, 2}

\* The file warmup_model.py:46 writes into MEDIA_ROOT.
WarmupName == "warmup_test.jpg"

\* warmup_model.py:27-28, 33: the files the warm-up loads when no model is held.
WarmupModelPath == "m1.keras"
WarmupAltModelPath == "m2.h5"
WarmupLabelPath == "l1.json"

\* The files MEDIA_ROOT can hold.
MediaNames == UploadNames \cup {WarmupName}

\* What a path of MEDIA_ROOT holds: no file, or a file and its bytes.
NoFile == [exists |-> FALSE, bytes |-> <<>>]
EmptyFile == [exists |-> TRUE, bytes |-> <<>>]

\* The byte a file reads as where nothing was written below a later write.
Hole == "00"

\* The capacity of the buffer open(temp_path, 'wb+') puts before the file
\* (views.py:61), in the unit LeafBytes and JunkBytes are counted in.
BufferSize == 1

\* The bytes of a sequence of chunks, end to end.
RECURSIVE Bytes(_)
Bytes(chunks) ==
  IF chunks = <<>> THEN <<>> ELSE Head(chunks) \o Bytes(Tail(chunks))

\* write(2) of data at offset off of a file holding bytes: the data replaces
\* what was there, whatever lies after it stays, and a gap before it reads as
\* Hole.
WriteAt(bytes, off, data) ==
  LET n == IF Len(bytes) > off + Len(data) THEN Len(bytes) ELSE off + Len(data)
  IN  [i \in 1..n |-> IF i > off /\ i <= off + Len(data) THEN data[i - off]
                      ELSE IF i <= Len(bytes) THEN bytes[i]
                      ELSE Hole]

\* What Image.open finds at a path of MEDIA_ROOT: bytes after a whole picture
\* do not stop it from being decoded; an empty file, a picture cut short and
\* any other bytes are no picture.
ImageAt(media, name) ==
  IF ~media[name].exists THEN "missing"
  ELSE IF Len(media[name].bytes) >= Len(LeafBytes)
          /\ SubSeq(media[name].bytes, 1, Len(LeafBytes)) = LeafBytes THEN "leaf"
  ELSE "junk"

NoPrediction == [pending |-> TRUE]

\* The local variables of a call, before any of them is assigned.
NoLocals ==
  [input_shape |-> "None",      \* load_model: the model whose input_shape was read
   size |-> <<0, 0>>,           \* preprocess_image: the size the image was resized to
   model_name |-> FALSE,        \* preprocess_image: 'efficientnet' in model_name
   norm |-> "None",             \* preprocess_image: the normalisation applied
   fmodel |-> "None",           \* predict: the model that ran the forward pass
   scores |-> <<>>,             \* predict: predictions[0]
   i |-> 0,                     \* predict_batch: the position in image_paths
   results |-> <<>>,            \* predict_batch: results
   model_path |-> "None",       \* index: model_path
   inner |-> FALSE,             \* warm-up: inside its initialize_model call
   detached |-> FALSE,          \* index, warm-up: the file it holds open was removed
   chunk |-> 0,                 \* index, warm-up: the chunks handed to write so far
   buf |-> <<>>,                \* index, warm-up: the bytes waiting in the buffer
   off |-> 0,                   \* index, warm-up: the bytes that reached the file
   seen |-> NoFile,             \* index: what the child found at temp_path
   prediction |-> NoPrediction] \* index: prediction; warm-up: result

\* A thread that is inside no call.
Idle ==
  [op |-> "none", pc |-> "idle", arg |-> [none |-> TRUE], loc |-> NoLocals,
   res |-> [none |-> TRUE]]

\* The call returns res.
Returned(c, res) == [c EXCEPT !.pc = "done", !.res = res]

\* The model_path argument of the load_model call a thread is in.
ModelPathOf(c) ==
  IF c.op = "warmup"
    THEN IF Exists(WarmupModelPath) THEN WarmupModelPath ELSE WarmupAltModelPath
    ELSE c.arg.model_path

\* The json_path argument of the load_class_indices call a thread is in.
LabelPathOf(c) ==
  IF c.op = "warmup" THEN WarmupLabelPath
  ELSE IF c.op = "load_class_indices" THEN c.arg.json_path
  ELSE c.arg.class_indices_path

\* ml_model.py:290, views.py:165: the label file is loaded when a path was
\* given and names a file; ml_model.py:293, views.py:175 come next.
AfterModelStage(c) ==
  [c EXCEPT !.pc = IF LabelPathOf(c) # "None" /\ Exists(LabelPathOf(c))
                     THEN "class_indices" ELSE "model_loaded",
            !.loc = NoLocals]

\* load_model returns value: to its caller, or into initialize_model,
\* initialize_model_view or the warm-up, which drop the value.
AfterLoadModel(c, value) ==
  IF c.op = "load_model"
    THEN Returned([c EXCEPT !.loc = NoLocals], [ret |-> value])
    ELSE AfterModelStage(c)

\* load_class_indices returns (None; ok tells whether the file was read).
AfterLoadClassIndices(c, ok) ==
  IF c.op = "load_class_indices"
    THEN Returned(c, [ok |-> ok])
    ELSE [c EXCEPT !.pc = "model_loaded"]

\* ml_model.py:214-231: the result predict builds from the scores and the label.
PredictResult(scores, predicted_class_name) ==
  [disease |-> predicted_class_name,
   confidence |-> scores[ArgMax(scores) + 1],
   all_predictions |-> [class_index |-> ArgMax(scores),
                        confidence_scores |-> scores]]

\* The image path the predict call of a thread was given.
ImagePathOf(c) ==
  IF c.op = "predict_batch" THEN c.arg.image_paths[c.loc.i]
  ELSE IF c.op = "warmup" THEN WarmupName
  ELSE c.arg.image_path

\* predict_batch handing back what it has as soon as an item is an error.
AfterPredictStopsAtError(c, result) ==
  IF c.op = "predict"
    THEN Returned([c EXCEPT !.loc = [NoLocals EXCEPT !.fmodel = c.loc.fmodel]], result)
  ELSE IF c.op = "predict_batch"
    THEN LET results == Append(c.loc.results,
                               [image_path |-> ImagePathOf(c)] @@ result)
         IN  IF c.loc.i < Len(c.arg.image_paths) /\ "error" \notin DOMAIN result
               THEN [c EXCEPT !.pc = "predict",
                              !.loc = [NoLocals EXCEPT !.i = c.loc.i + 1,
                                                       !.results = results]]
               ELSE Returned([c EXCEPT !.loc = NoLocals], [results |-> results])
  ELSE [c EXCEPT !.pc = "temp_exists",
                 !.loc = [NoLocals EXCEPT !.prediction = result]]

\* predict returns result: to its caller, into the loop of predict_batch
\* (ml_model.py:247-250) or into the warm-up (warmup_model.py:51).
AfterPredict(c, result) ==
  IF c.op = "predict"
    THEN Returned([c EXCEPT !.loc = [NoLocals EXCEPT !.fmodel = c.loc.fmodel]], result)
  ELSE IF c.op = "predict_batch"
    THEN LET results == Append(c.loc.results,
                               [image_path |-> ImagePathOf(c)] @@ result)
         IN  IF c.loc.i < Len(c.arg.image_paths)
               THEN [c EXCEPT !.pc = "predict",
                              !.loc = [NoLocals EXCEPT !.i = c.loc.i + 1,
                                                       !.results = results]]
               ELSE Returned([c EXCEPT !.loc = NoLocals], [results |-> results])
  ELSE [c EXCEPT !.pc = "temp_exists",
                 !.loc = [NoLocals EXCEPT !.prediction = result]]

\* views.py:125-130: the answer of index's exception handler.
ServerError ==
  [status |-> 500,
   body |-> [success |-> FALSE,
             error |-> "Server error while processing the image. Details logged."]]

\* The temporary file of a call: views.py:58, warmup_model.py:46.
TempNameOf(c) == IF c.op = "warmup" THEN WarmupName ELSE c.arg.image.name

\* The call is past its clean-up: views.py:94-105 answer from the prediction
\* and warmup_model.py:57-58 report; removed_ok is FALSE when os.remove raised
\* (views.py:108-130, warmup_model.py:60-62).
AfterCleanUp(c, removed_ok) ==
  IF c.op = "warmup"
    THEN Returned(c, [warmed |-> removed_ok])
    ELSE Returned(c, IF removed_ok THEN IndexResponse(c.loc.prediction)
                                   ELSE ServerError)

\* ------------------------------------------------------ the application

NoOp == [op |-> "none", arg |-> "None", res |-> "None", pre |-> NewDetector]

InitApp ==
  /\ detector = NewDetector
  /\ media_root = [n \in MediaNames |-> NoFile]
  /\ calls = [t \in Callers |-> Idle]
  /\ last = NoOp
  /\ initOk = FALSE
  /\ healthOk = FALSE

NoCall == [image |-> "None", model_path |-> "None", timeout |-> 0]
NoChild == [state |-> "none", exit |-> 0, stdout |-> <<"text", "">>]
NoOutcome == [raised |-> FALSE, result |-> [pending |-> TRUE]]

InitRunner ==
  /\ rpc = "idle"
  /\ rarg = NoCall
  /\ child = NoChild
  /\ clock = 0
  /\ rout = NoOutcome

Init == InitCache /\ InitApp /\ InitRunner

\* ---- get_detector, called from inside the calls

\* Where a call goes on once `detector = get_detector()` has its value:
\* views.py:38 (health), ml_model.py:287 (initialize_model), views.py:156
\* (initialize_model_view), views.py:78 (index), warmup_model.py:25 (warm-up).
AfterGetDetector(c) ==
  [c EXCEPT !.pc = IF c.op = "health" THEN "health"
                   ELSE IF c.op = "index" THEN "detector_path"
                   ELSE IF c.op = "warmup" /\ ~c.loc.inner THEN "warm_model"
                   ELSE "model_file"]

\* views.py:37, 77, 153, ml_model.py:285, warmup_model.py:23  the call enters
\* get_detector, whose statements (Check1 .. Return) the thread then runs.
EnterGetDetector(t) ==
  /\ calls[t].pc = "get_detector"
  /\ pc[t] = "idle"
  /\ Call(t)

\* detector = get_detector(): the value is handed over and the frame of
\* get_detector is gone.
GotDetector(t) ==
  /\ calls[t].pc = "get_detector"
  /\ pc[t] = "done"
  /\ calls' = [calls EXCEPT ![t] = AfterGetDetector(calls[t])]
  /\ pc' = [pc EXCEPT ![t] = "idle"]
  /\ tmp' = [tmp EXCEPT ![t] = 0]
  /\ ret' = [ret EXCEPT ![t] = 0]
  /\ UNCHANGED <<detector_instance, detector_lock, built>>
  /\ UNCHANGED <<detector, media_root, last, initOk, healthOk, runVars>>

\* ---- PlantDiseaseDetector.load_model, statement by statement

\* A thread calls detector.load_model(model_path), with a path of `paths`.
StartLoadModel(t, paths) ==
  /\ calls[t].pc = "idle"
  /\ \E model_path \in paths :
       calls' = [calls EXCEPT ![t] = [Idle EXCEPT !.op = "load_model",
                                                  !.pc = "load_model",
                                                  !.arg = [model_path |-> model_path]]]
  /\ UNCHANGED <<detector, media_root, last, initOk, healthOk, cacheVars, runVars>>

\* load_model dropping the held model when the read fails.
StoreModelReset(t) ==
  /\ calls[t].pc = "load_model"
  /\ IF ModelPathOf(calls[t]) \in DOMAIN ModelFiles
       THEN /\ detector' = [detector EXCEPT
                              !.model = ModelFiles[ModelPathOf(calls[t])].model]
            /\ calls' = [calls EXCEPT ![t].pc = "model_path"]
       ELSE /\ detector' = [detector EXCEPT !.model = "None"]
            /\ calls' = [calls EXCEPT ![t] = AfterLoadModel(calls[t], FALSE)]
  /\ UNCHANGED <<media_root, last, initOk, healthOk, cacheVars, runVars>>

\* load_model storing the path before the file is read.
StoreModelPathFirst(t) ==
  /\ calls[t].pc = "load_model"
  /\ IF ModelPathOf(calls[t]) \in DOMAIN ModelFiles
       THEN /\ detector' = [detector EXCEPT
                              !.model = ModelFiles[ModelPathOf(calls[t])].model]
            /\ calls' = [calls EXCEPT ![t].pc = "model_path"]
       ELSE /\ detector' = [detector EXCEPT !.model_path = ModelPathOf(calls[t])]
            /\ calls' = [calls EXCEPT ![t] = AfterLoadModel(calls[t], FALSE)]
  /\ UNCHANGED <<media_root, last, initOk, healthOk, cacheVars, runVars>>

\* ml_model.py:54  self.model = keras.models.load_model(model_path); when Keras
\* raises, nothing is stored and lines 115-118 return False.
StoreModel(t) ==
  /\ calls[t].pc = "load_model"
  /\ IF ModelPathOf(calls[t]) \in DOMAIN ModelFiles
       THEN /\ detector' = [detector EXCEPT
                              !.model = ModelFiles[ModelPathOf(calls[t])].model]
            /\ calls' = [calls EXCEPT ![t].pc = "model_path"]
       ELSE /\ detector' = detector
            /\ calls' = [calls EXCEPT ![t] = AfterLoadModel(calls[t], FALSE)]
  /\ UNCHANGED <<media_root, last, initOk, healthOk, cacheVars, runVars>>

\* ml_model.py:55  self.model_path = model_path
StoreModelPath(t) ==
  /\ calls[t].pc = "model_path"
  /\ detector' = [detector EXCEPT !.model_path = ModelPathOf(calls[t])]
  /\ calls' = [calls EXCEPT ![t].pc = "input_shape"]
  /\ UNCHANGED <<media_root, last, initOk, healthOk, cacheVars, runVars>>

\* ml_model.py:61-62  input_shape = self.model.input_shape: the shape of the
\* model the singleton holds at this moment.
ReadInputShape(t) ==
  /\ calls[t].pc = "input_shape"
  /\ calls' = [calls EXCEPT ![t].pc = "image_size",
                            ![t].loc.input_shape = detector.model]
  /\ UNCHANGED <<detector, media_root, last, initOk, healthOk, cacheVars, runVars>>

\* ml_model.py:84-99  self.image_size = (w, h), when the shape gives one; then
\* lines 107-114 return True.
StoreImageSize(t) ==
  /\ calls[t].pc = "image_size"
  /\ detector' =
       IF calls[t].loc.input_shape = "None"
         THEN detector
         ELSE [detector EXCEPT !.image_size =
                 InferImageSize(ModelOf(calls[t].loc.input_shape).input_shape,
                                detector.image_size)]
  /\ calls' = [calls EXCEPT ![t] = AfterLoadModel(calls[t], TRUE)]
  /\ UNCHANGED <<media_root, last, initOk, healthOk, cacheVars, runVars>>

\* ---- PlantDiseaseDetector.load_class_indices

\* A thread calls detector.load_class_indices(json_path), with a path of `paths`.
StartLoadClassIndices(t, paths) ==
  /\ calls[t].pc = "idle"
  /\ \E json_path \in paths :
       calls' = [calls EXCEPT ![t] = [Idle EXCEPT !.op = "load_class_indices",
                                                  !.pc = "class_indices",
                                                  !.arg = [json_path |-> json_path]]]
  /\ UNCHANGED <<detector, media_root, last, initOk, healthOk, cacheVars, runVars>>

\* load_class_indices clearing the label map when the read fails.
StoreClassIndicesReset(t) ==
  /\ calls[t].pc = "class_indices"
  /\ IF LabelPathOf(calls[t]) \in DOMAIN LabelFiles
       THEN /\ detector' = [detector EXCEPT !.class_indices = LabelPathOf(calls[t])]
            /\ calls' = [calls EXCEPT ![t] = AfterLoadClassIndices(calls[t], TRUE)]
       ELSE /\ detector' = [detector EXCEPT !.class_indices = "None"]
            /\ calls' = [calls EXCEPT ![t] = AfterLoadClassIndices(calls[t], FALSE)]
  /\ UNCHANGED <<media_root, last, initOk, healthOk, cacheVars, runVars>>

\* ml_model.py:127-132  self.class_indices = json.load(f); when open or
\* json.load raises, nothing is stored and line 131 prints.
StoreClassIndices(t) ==
  /\ calls[t].pc = "class_indices"
  /\ IF LabelPathOf(calls[t]) \in DOMAIN LabelFiles
       THEN /\ detector' = [detector EXCEPT !.class_indices = LabelPathOf(calls[t])]
            /\ calls' = [calls EXCEPT ![t] = AfterLoadClassIndices(calls[t], TRUE)]
       ELSE /\ detector' = detector
            /\ calls' = [calls EXCEPT ![t] = AfterLoadClassIndices(calls[t], FALSE)]
  /\ UNCHANGED <<media_root, last, initOk, healthOk, cacheVars, runVars>>

\* ---- PlantDiseaseDetector.predict, statement by statement

\* A thread calls detector.predict(image_path).
StartPredict(t) ==
  /\ calls[t].pc = "idle"
  /\ \E image_path \in Images :
       calls' = [calls EXCEPT ![t] = [Idle EXCEPT !.op = "predict",
                                                  !.pc = "predict",
                                                  !.arg = [image_path |-> image_path]]]
  /\ UNCHANGED <<detector, media_root, last, initOk, healthOk, cacheVars, runVars>>

\* predict without its guard: a null model fails inside the try block.
PredictNoGuard(t) ==
  /\ calls[t].pc = "predict"
  /\ calls' = [calls EXCEPT ![t] =
                 IF detector.model = "None"
                   THEN AfterPredict(calls[t], [error |-> "Prediction failed"])
                   ELSE [calls[t] EXCEPT !.pc = "open"]]
  /\ UNCHANGED <<detector, media_root, last, initOk, healthOk, cacheVars, runVars>>

\* ml_model.py:200-201  if self.model is None: return {"error": ...}
PredictGuard(t) ==
  /\ calls[t].pc = "predict"
  /\ calls' = [calls EXCEPT ![t] =
                 IF detector.model = "None"
                   THEN AfterPredict(calls[t], ModelNotLoaded)
                   ELSE [calls[t] EXCEPT !.pc = "open"]]
  /\ UNCHANGED <<detector, media_root, last, initOk, healthOk, cacheVars, runVars>>

\* ml_model.py:146  Image.open(image_path); an image that cannot be opened
\* makes preprocess_image return None (lines 186-188) and predict answer at
\* lines 207-208.  The warm-up's image is the file it saved in MEDIA_ROOT.
OpenImage(t) ==
  /\ calls[t].pc = "open"
  /\ LET image == IF calls[t].op = "warmup" THEN ImageAt(media_root, WarmupName)
                                            ELSE ImagePathOf(calls[t])
     IN  calls' = [calls EXCEPT ![t] =
                     IF image # "leaf"
                       THEN AfterPredict(calls[t], [error |-> "Failed to process image"])
                       ELSE [calls[t] EXCEPT !.pc = "resize"]]
  /\ UNCHANGED <<detector, media_root, last, initOk, healthOk, cacheVars, runVars>>

\* ml_model.py:153  image.resize(self.image_size)
ReadImageSize(t) ==
  /\ calls[t].pc = "resize"
  /\ calls' = [calls EXCEPT ![t].pc = "model_name",
                            ![t].loc.size = detector.image_size]
  /\ UNCHANGED <<detector, media_root, last, initOk, healthOk, cacheVars, runVars>>

\* ml_model.py:161  model_name = getattr(self.model, 'name', '').lower(): the
\* name alone is read here, of the model held at this line.
ReadModelName(t) ==
  /\ calls[t].pc = "model_name"
  /\ calls' = [calls EXCEPT ![t].pc = "model_layers",
                            ![t].loc.model_name = NameHasEfficientNet(detector.model)]
  /\ UNCHANGED <<detector, media_root, last, initOk, healthOk, cacheVars, runVars>>

\* ml_model.py:162-180  layer_names = [... self.model.layers[:6]] of the
\* model held at this line, then the normalisation: EfficientNet's when the
\* name read before or one of these layers says so, /255 otherwise.
ReadModelLayers(t) ==
  /\ calls[t].pc = "model_layers"
  /\ calls' = [calls EXCEPT
                 ![t].pc = "forward",
                 ![t].loc.model_name = FALSE,
                 ![t].loc.norm = IF calls[t].loc.model_name
                                       \/ LayersHaveEfficientNet(detector.model)
                                   THEN "efficientnet" ELSE "div255"]
  /\ UNCHANGED <<detector, media_root, last, initOk, healthOk, cacheVars, runVars>>

\* What self.model.predict can do at line 211 with the model held just then: a
\* null model has no predict attribute, which raises.  A predict call is
\* taken through every score vector, the calls predict_batch and the warm-up
\* make through the three outcomes of CoarseOutcomes.
ForwardOf(c, m) ==
  IF m = "None" THEN {[raise |-> TRUE, scores |-> <<>>]}
  ELSE IF c.op = "predict" THEN ForwardOutcomes(m)
  ELSE CoarseOutcomes(m)

\* ml_model.py:211  predictions = self.model.predict(processed_image): the
\* forward pass of the model the singleton holds at this moment; a raise is
\* answered at lines 233-234.
ForwardPass(t) ==
  /\ calls[t].pc = "forward"
  /\ \E fwd \in ForwardOf(calls[t], detector.model) :
       calls' = [calls EXCEPT ![t] =
                   IF fwd.raise
                     THEN AfterPredict(calls[t], [error |-> "Prediction failed"])
                     ELSE [calls[t] EXCEPT !.pc = "test_labels",
                                           !.loc = [NoLocals EXCEPT
                                                      !.i = calls[t].loc.i,
                                                      !.results = calls[t].loc.results,
                                                      !.fmodel = detector.model,
                                                      !.scores = fwd.scores]]]
  /\ UNCHANGED <<detector, media_root, last, initOk, healthOk, cacheVars, runVars>>

\* ml_model.py:218-219  predicted_class_name = "Unknown"; if self.class_indices:
TestClassIndices(t) ==
  /\ calls[t].pc = "test_labels"
  /\ calls' = [calls EXCEPT ![t] =
                 IF detector.class_indices = "None"
                      \/ DOMAIN LabelFiles[detector.class_indices] = {}
                   THEN AfterPredict(calls[t],
                                     PredictResult(calls[t].loc.scores, "Unknown"))
                   ELSE [calls[t] EXCEPT !.pc = "get_label"]]
  /\ UNCHANGED <<detector, media_root, last, initOk, healthOk, cacheVars, runVars>>

\* ml_model.py:222  self.class_indices.get(idx_str, "Unknown"), on the label map
\* the singleton holds at this moment; lines 224-231 return.
GetClassName(t) ==
  /\ calls[t].pc = "get_label"
  /\ calls' = [calls EXCEPT ![t] =
                 AfterPredict(calls[t],
                   IF detector.class_indices = "None"
                     THEN [error |-> "Prediction failed"]
                     ELSE PredictResult(calls[t].loc.scores,
                            Get(LabelFiles[detector.class_indices],
                                Str(ArgMax(calls[t].loc.scores)), "Unknown")))]
  /\ UNCHANGED <<detector, media_root, last, initOk, healthOk, cacheVars, runVars>>

\* ---- PlantDiseaseDetector.predict_batch

\* The lists of image paths handed to predict_batch.
BatchPaths == UNION {[1..n -> {"leaf", "junk"}] : n \in 0..MaxBatch}

\* ml_model.py:246-247, 251  A thread calls detector.predict_batch(image_paths):
\* results = [], then the loop, entered at its first item if there is one.
\* One batch is followed at a time: predict_batch reads the singleton and
\* writes nothing, so a second batch could not change what the first one sees.
StartPredictBatch(t) ==
  /\ calls[t].pc = "idle"
  /\ \A u \in Callers : calls[u].op # "predict_batch"
  /\ \E image_paths \in BatchPaths :
       calls' = [calls EXCEPT ![t] =
                   IF image_paths = <<>>
                     THEN Returned([Idle EXCEPT !.op = "predict_batch",
                                                !.arg = [image_paths |-> image_paths]],
                                   [results |-> <<>>])
                     ELSE [Idle EXCEPT !.op = "predict_batch",
                                       !.pc = "predict",
                                       !.arg = [image_paths |-> image_paths],
                                       !.loc = [NoLocals EXCEPT !.i = 1]]]
  /\ UNCHANGED <<detector, media_root, last, initOk, healthOk, cacheVars, runVars>>

\* ---- initialize_model

\* The arguments initialize_model is called with: apps.py:33-60,
\* warmup_model.py:31-35; "None" is an argument left out.
InitializeArgs ==
  {[model_path |-> m, class_indices_path |-> c] :
     m \in {"m1.keras", "m2.h5", "bad.keras", "gone.keras", "None"},
     c \in {"l1.json", "l2.json", "gone.json", "None"}}

\* A model path or label path that names no file (or was left out).
Absent(p) == p = "None" \/ ~Exists(p)

\* ml_model.py:274-285  A thread calls initialize_model(model_path,
\* class_indices_path), which first calls get_detector.
StartInitializeModel(t) ==
  /\ calls[t].pc = "idle"
  /\ \E a \in InitializeArgs :
       calls' = [calls EXCEPT ![t] = [Idle EXCEPT !.op = "initialize_model",
                                                  !.pc = "get_detector", !.arg = a]]
  /\ UNCHANGED <<detector, media_root, last, initOk, healthOk, cacheVars, runVars>>

\* views.py:158-161: the answer when the model file does not exist.
ModelFileNotFound(c) ==
  [status |-> 200,
   body |-> [status |-> "error",
             message |-> "Model file not found: " \o c.arg.model_path]]

\* The model file test loading the model only when the label file is there too.
TestModelFileRequiresBoth(t) ==
  /\ calls[t].pc = "model_file"
  /\ calls' = [calls EXCEPT ![t] =
                 IF ~Absent(ModelPathOf(calls[t])) /\ ~Absent(LabelPathOf(calls[t]))
                   THEN [calls[t] EXCEPT !.pc = "load_model"]
                 ELSE IF calls[t].op = "initialize_model_view"
                   THEN Returned(calls[t], ModelFileNotFound(calls[t]))
                 ELSE [calls[t] EXCEPT !.pc = "model_loaded", !.loc = NoLocals]]
  /\ detector' = detector
  /\ UNCHANGED <<media_root, last, initOk, healthOk, cacheVars, runVars>>

\* The model file test dropping the held model when the file is absent.
TestModelFileUnloads(t) ==
  /\ calls[t].pc = "model_file"
  /\ calls' = [calls EXCEPT ![t] =
                 IF ~Absent(ModelPathOf(calls[t]))
                   THEN [calls[t] EXCEPT !.pc = "load_model"]
                 ELSE IF calls[t].op = "initialize_model_view"
                   THEN Returned(calls[t], ModelFileNotFound(calls[t]))
                 ELSE AfterModelStage(calls[t])]
  /\ detector' = IF Absent(ModelPathOf(calls[t]))
                   THEN [detector EXCEPT !.model = "None"] ELSE detector
  /\ UNCHANGED <<media_root, last, initOk, healthOk, cacheVars, runVars>>

\* ml_model.py:287, views.py:156-161  if model_path and os.path.exists(
\* model_path): load_model is entered when the path names a file; without one
\* initialize_model goes on to the label file and the view answers "not found".
TestModelFile(t) ==
  /\ calls[t].pc = "model_file"
  /\ calls' = [calls EXCEPT ![t] =
                 IF ~Absent(ModelPathOf(calls[t]))
                   THEN [calls[t] EXCEPT !.pc = "load_model"]
                 ELSE IF calls[t].op = "initialize_model_view"
                   THEN Returned(calls[t], ModelFileNotFound(calls[t]))
                 ELSE AfterModelStage(calls[t])]
  /\ detector' = detector
  /\ UNCHANGED <<media_root, last, initOk, healthOk, cacheVars, runVars>>

\* views.py:175-184: the answer of initialize_model_view once its loads are done.
InitializeResponse(model_loaded) ==
  IF model_loaded
    THEN [status |-> 200, body |-> [status |-> "success",
                                    message |-> "Model initialized successfully"]]
    ELSE [status |-> 200, body |-> [status |-> "error",
                                    message |-> "Failed to load model"]]

\* ml_model.py:293  return detector.model is not None; views.py:175  if
\* detector.model is not None; warmup_model.py:31-35, where the value
\* initialize_model returns is dropped.  get_inference_pool (views.py:171) runs
\* before the read, inside its own try block, and does not touch the detector.
ReadModelLoaded(t) ==
  /\ calls[t].pc = "model_loaded"
  /\ calls' = [calls EXCEPT ![t] =
                 IF calls[t].op = "initialize_model"
                   THEN Returned(calls[t], [ret |-> (detector.model # "None")])
                 ELSE IF calls[t].op = "initialize_model_view"
                   THEN Returned(calls[t], InitializeResponse(detector.model # "None"))
                 ELSE [calls[t] EXCEPT !.pc = "warm_check"]]
  /\ initOk' = (initOk \/ (calls[t].op = "initialize_model_view"
                            /\ detector.model # "None"))
  /\ UNCHANGED <<detector, media_root, last, healthOk, cacheVars, runVars>>

\* ---- the HTTP endpoints

\* views.py:31-37  GET /health/: the handler first calls get_detector.
StartHealth(t) ==
  /\ calls[t].pc = "idle"
  /\ calls' = [calls EXCEPT ![t] = [Idle EXCEPT !.op = "health",
                                                !.pc = "get_detector"]]
  /\ UNCHANGED <<detector, media_root, last, initOk, healthOk, cacheVars, runVars>>

\* views.py:38-42  model_loaded = detector.model is not None, and the answer.
AnswerHealth(t) ==
  /\ calls[t].pc = "health"
  /\ calls' = [calls EXCEPT ![t] = Returned(calls[t], Health(detector))]
  /\ healthOk' = (healthOk \/ Health(detector).status = 200)
  /\ UNCHANGED <<detector, media_root, last, initOk, cacheVars, runVars>>

\* views.py:142-153, 186-195  POST /api/initialize-model/: the body is parsed
\* and the request answered at once when it is no JSON, no object or has no
\* model_path; otherwise get_detector is called (line 153).
StartInitializeModelView(t) ==
  /\ calls[t].pc = "idle"
  /\ \E data \in InitBodies :
       LET c == [Idle EXCEPT !.op = "initialize_model_view", !.arg = data]
           error(message) == [status |-> 200,
                              body |-> [status |-> "error", message |-> message]]
       IN  calls' = [calls EXCEPT ![t] =
                       IF ~data.json
                         THEN Returned(c, error("Invalid JSON in request body"))
                       ELSE IF ~data.is_object
                         THEN Returned(c, error(ErrorMessage(ListHasNoGet)))
                       ELSE IF data.model_path = "None"
                         THEN Returned(c, error("model_path is required"))
                       ELSE [c EXCEPT !.pc = "get_detector"]]
  /\ UNCHANGED <<detector, media_root, last, initOk, healthOk, cacheVars, runVars>>

\* views.py:51-58, 105-107, 132  GET or POST /: a GET is answered with the
\* page and a POST without an image field with "No file provided"; with an
\* upload, temp_path is MEDIA_ROOT/<uploaded_file.name>.
StartIndex(t) ==
  /\ calls[t].pc = "idle"
  /\ \E request \in IndexRequests :
       LET c == [Idle EXCEPT !.op = "index", !.arg = request]
       IN  calls' = [calls EXCEPT ![t] =
                       IF request.method # "POST"
                         THEN Returned(c, [status |-> 200,
                                           body |-> [template |-> "index.html"]])
                       ELSE IF request.image = NoUpload
                         THEN Returned(c, [status |-> 200,
                                           body |-> [success |-> FALSE,
                                                     error |-> "No file provided"]])
                       ELSE [c EXCEPT !.pc = "open_temp"]]
  /\ UNCHANGED <<detector, media_root, last, initOk, healthOk, cacheVars, runVars>>

\* The chunks a call writes to its temporary file: views.py:62 those of the
\* upload, warmup_model.py:45-48 the green test picture in one piece.
TempChunksOf(c) == IF c.op = "warmup" THEN <<LeafBytes>> ELSE c.arg.image.chunks

\* views.py:61  open(temp_path, 'wb+'), warmup_model.py:48  dummy_image.save(
\* dummy_path): the file is created, or cut to nothing when the name exists.
OpenTemp(t) ==
  /\ calls[t].pc = "open_temp"
  /\ media_root' = [media_root EXCEPT ![TempNameOf(calls[t])] = EmptyFile]
  /\ calls' = [calls EXCEPT ![t].pc = "write_temp",
                            ![t].loc.detached = FALSE,
                            ![t].loc.chunk = 0,
                            ![t].loc.buf = <<>>,
                            ![t].loc.off = 0]
  /\ UNCHANGED <<detector, last, initOk, healthOk, cacheVars, runVars>>

\* MEDIA_ROOT once the call has written data where its handle stands: the
\* bytes land in the file the call opened, which is no longer the one at
\* temp_path when that was removed meanwhile.
Written(c, data) ==
  IF c.loc.detached
    THEN media_root
    ELSE [media_root EXCEPT ![TempNameOf(c)].bytes =
            WriteAt(media_root[TempNameOf(c)].bytes, c.loc.off, data)]

\* views.py:62-63  for chunk in uploaded_file.chunks(): destination.write(
\* chunk), one step of it: a chunk that fits the buffer stays there; else the
\* buffer is first written out, and a chunk larger than the buffer then goes
\* to the file in a write of its own.
WriteChunk(t) ==
  /\ calls[t].pc = "write_temp"
  /\ calls[t].loc.chunk < Len(TempChunksOf(calls[t]))
  /\ LET c == calls[t]
         chunk == TempChunksOf(c)[c.loc.chunk + 1]
     IN  IF Len(c.loc.buf) + Len(chunk) <= BufferSize
           THEN /\ media_root' = media_root
                /\ calls' = [calls EXCEPT ![t].loc.buf = c.loc.buf \o chunk,
                                          ![t].loc.chunk = c.loc.chunk + 1]
         ELSE IF c.loc.buf # <<>>
           THEN /\ media_root' = Written(c, c.loc.buf)
                /\ calls' = [calls EXCEPT ![t].loc.buf = <<>>,
                                          ![t].loc.off = c.loc.off + Len(c.loc.buf)]
         ELSE /\ media_root' = Written(c, chunk)
              /\ calls' = [calls EXCEPT ![t].loc.off = c.loc.off + Len(chunk),
                                        ![t].loc.chunk = c.loc.chunk + 1]
  /\ UNCHANGED <<detector, last, initOk, healthOk, cacheVars, runVars>>

\* views.py:61-63  the with block ends once every chunk was handed over: what
\* the buffer still holds is written and the file is closed.  Then
\* views.py:77 and warmup_model.py:51 follow.
CloseTemp(t) ==
  /\ calls[t].pc = "write_temp"
  /\ calls[t].loc.chunk = Len(TempChunksOf(calls[t]))
  /\ media_root' = IF calls[t].loc.buf = <<>>
                     THEN media_root
                     ELSE Written(calls[t], calls[t].loc.buf)
  /\ calls' = [calls EXCEPT ![t].pc = IF calls[t].op = "warmup"
                                        THEN "predict" ELSE "get_detector",
                            ![t].loc.detached = FALSE,
                            ![t].loc.buf = <<>>,
                            ![t].loc.off = 0,
                            ![t].loc.chunk = 0]
  /\ UNCHANGED <<detector, last, initOk, healthOk, cacheVars, runVars>>

\* views.py:78  model_path = getattr(detector, 'model_path', None)
ReadModelPath(t) ==
  /\ calls[t].pc = "detector_path"
  /\ calls' = [calls EXCEPT ![t].pc = "subprocess",
                            ![t].loc.model_path = detector.model_path]
  /\ UNCHANGED <<detector, media_root, last, initOk, healthOk, cacheVars, runVars>>

\* The outcomes of predict_via_subprocess a request is taken through: every
\* error result, and the classifications of the score vectors of
\* CoarseOutcomes.
IndexOutcomes(image, model_path) ==
  {o \in RunnerOutcomes(image, model_path) :
     \/ "error" \in DOMAIN o.result
     \/ \E fwd \in CoarseOutcomes(ChildDetector(model_path).model) :
          ~fwd.raise /\ fwd.scores = o.result.all_predictions.confidence_scores}

\* views.py:82  prediction = predict_via_subprocess(temp_path, ...): the child
\* classifies whatever temp_path holds when it opens it, and the call returns
\* a result on every outcome.
RunSubprocess(t) ==
  /\ calls[t].pc = "subprocess"
  /\ \E o \in IndexOutcomes(ImageAt(media_root, TempNameOf(calls[t])),
                             calls[t].loc.model_path) :
       calls' = [calls EXCEPT ![t].pc = "temp_exists",
                              ![t].loc.seen = media_root[TempNameOf(calls[t])],
                              ![t].loc.prediction = o.result]
  /\ UNCHANGED <<detector, media_root, last, initOk, healthOk, cacheVars, runVars>>

\* views.py:91, warmup_model.py:54  if os.path.exists(temp_path):
TempExists(t) ==
  /\ calls[t].pc = "temp_exists"
  /\ calls' = [calls EXCEPT ![t] =
                 IF ~media_root[TempNameOf(calls[t])].exists
                   THEN AfterCleanUp(calls[t], TRUE)
                   ELSE [calls[t] EXCEPT !.pc = "temp_remove"]]
  /\ UNCHANGED <<detector, media_root, last, initOk, healthOk, cacheVars, runVars>>

\* The call holds the file `name` open for writing (between OpenTemp and
\* CloseTemp).
HoldsOpen(c, name) == c.pc = "write_temp" /\ TempNameOf(c) = name

\* views.py:92, warmup_model.py:55  os.remove(temp_path): FileNotFoundError
\* when the file went away after the check.  A call that holds the removed
\* file open goes on writing to it, out of reach of temp_path.
TempRemove(t) ==
  /\ calls[t].pc = "temp_remove"
  /\ media_root' = [media_root EXCEPT ![TempNameOf(calls[t])] = NoFile]
  /\ calls' = [u \in Callers |->
                 IF u = t
                   THEN AfterCleanUp(calls[t],
                                     media_root[TempNameOf(calls[t])].exists)
                 ELSE IF HoldsOpen(calls[u], TempNameOf(calls[t]))
                         /\ media_root[TempNameOf(calls[t])].exists
                   THEN [calls[u] EXCEPT !.loc.detached = TRUE]
                 ELSE calls[u]]
  /\ UNCHANGED <<detector, last, initOk, healthOk, cacheVars, runVars>>

\* ---- the warm-up command

\* warmup_model.py:19-23  handle: the command first calls get_detector.  It is
\* followed inside the server process (call_command), where get_detector hands
\* it the server's singleton; run by manage.py it has a singleton of its own
\* and shares MEDIA_ROOT alone with the requests.
StartWarmup(t) ==
  /\ calls[t].pc = "idle"
  /\ calls' = [calls EXCEPT ![t] = [Idle EXCEPT !.op = "warmup",
                                                !.pc = "get_detector"]]
  /\ UNCHANGED <<detector, media_root, last, initOk, healthOk, cacheVars, runVars>>

\* warmup_model.py:25-35  if detector.model is None: initialize_model is
\* called on the first of the two model files that exists, and begins with a
\* get_detector call of its own (ml_model.py:285).
WarmupReadModel(t) ==
  /\ calls[t].pc = "warm_model"
  /\ calls' = [calls EXCEPT ![t] =
                 IF detector.model = "None"
                      /\ (Exists(WarmupModelPath) \/ Exists(WarmupAltModelPath))
                   THEN [calls[t] EXCEPT !.pc = "get_detector", !.loc.inner = TRUE]
                   ELSE [calls[t] EXCEPT !.pc = "warm_check"]]
  /\ UNCHANGED <<detector, media_root, last, initOk, healthOk, cacheVars, runVars>>

\* warmup_model.py:37-39  if detector.model is None: return; else the test
\* picture is built and saved (lines 45-48).
WarmupCheck(t) ==
  /\ calls[t].pc = "warm_check"
  /\ calls' = [calls EXCEPT ![t] =
                 IF detector.model = "None"
                   THEN Returned(calls[t], [warmed |-> FALSE])
                   ELSE [calls[t] EXCEPT !.pc = "open_temp"]]
  /\ UNCHANGED <<detector, media_root, last, initOk, healthOk, cacheVars, runVars>>

\* The caller has its answer and the thread is free for another call.
Finish(t) ==
  /\ calls[t].pc = "done"
  /\ calls' = [calls EXCEPT ![t] = Idle]
  /\ UNCHANGED <<detector, media_root, last, initOk, healthOk, cacheVars, runVars>>

\* ---- predict_via_subprocess, step by step: the parent waits on the child

\* A caller enters predict_via_subprocess(image_path, timeout_seconds, model_path).
RunnerCall ==
  /\ rpc = "idle"
  /\ \E image \in {"leaf", "junk"}, mp \in {"None", "m2.h5", "gone.keras"},
        timeout \in 1..MaxTimeout :
        rarg' = [image |-> image, model_path |-> mp, timeout |-> timeout]
  /\ rpc' = "launch"
  /\ child' = NoChild
  /\ clock' = 0
  /\ rout' = NoOutcome
  /\ UNCHANGED <<appVars, cacheVars>>

\* The parent starts the child process.
Launch ==
  /\ rpc = "launch"
  /\ child' = [child EXCEPT !.state = "running"]
  /\ rpc' = "wait"
  /\ UNCHANGED <<rarg, clock, rout, appVars, cacheVars>>

\* The child ends by itself, at any moment while it runs.
ChildExit ==
  /\ child.state = "running"
  /\ \E c \in ChildOutcomes(rarg.image, rarg.model_path) :
        child' = [state |-> "exited", exit |-> c.exit, stdout |-> c.stdout]
  /\ UNCHANGED <<rpc, rarg, clock, rout, appVars, cacheVars>>

\* One second passes while the parent waits.
Tick ==
  /\ rpc = "wait"
  /\ clock < rarg.timeout
  /\ clock' = clock + 1
  /\ UNCHANGED <<rpc, rarg, child, rout, appVars, cacheVars>>

\* The parent collects a child that has exited.
Reap ==
  /\ rpc = "wait"
  /\ child.state = "exited"
  /\ rout' = [raised |-> FALSE, result |-> ParentResult(FALSE, child.exit, child.stdout)]
  /\ rpc' = "done"
  /\ UNCHANGED <<rarg, child, clock, appVars, cacheVars>>

\* The deadline passes with the child still there, and the parent gives up
\* without ending it.
ExpireLeavesChild ==
  /\ rpc = "wait"
  /\ clock = rarg.timeout
  /\ child.state = "running"
  /\ rout' = [raised |-> FALSE, result |-> ParentResult(TRUE, child.exit, child.stdout)]
  /\ rpc' = "done"
  /\ UNCHANGED <<rarg, child, clock, appVars, cacheVars>>

\* The deadline passes with the child still running: the parent terminates it.
Expire ==
  /\ rpc = "wait"
  /\ clock = rarg.timeout
  /\ child.state = "running"
  /\ child' = [child EXCEPT !.state = "terminated"]
  /\ rout' = [raised |-> FALSE, result |-> ParentResult(TRUE, child.exit, child.stdout)]
  /\ rpc' = "done"
  /\ UNCHANGED <<rarg, clock, appVars, cacheVars>>

\* The call has returned; the caller may call again.
RunnerReturn ==
  /\ rpc = "done"
  /\ rpc' = "idle"
  /\ UNCHANGED <<rarg, child, clock, rout, appVars, cacheVars>>

NextRunner ==
  \/ RunnerCall
  \/ Launch
  \/ ChildExit
  \/ Tick
  \/ Reap
  \/ Expire
  \/ RunnerReturn

\* ---- the inference child run as a script

\* python inference_subprocess.py [image_path [model_path [class_indices_path]]]
DoScript ==
  \E argv \in ScriptArgs, imports_ok \in BOOLEAN :
    \E fwd \in ScriptForwards(argv.model_path) :
      /\ last' = [op |-> "script",
                  arg |-> [argv |-> argv, imports_ok |-> imports_ok, fwd |-> fwd],
                  res |-> RunScript(argv, imports_ok, fwd), pre |-> detector]
      /\ UNCHANGED <<detector, media_root, calls, initOk, healthOk, cacheVars, runVars>>

NextChild ==
  \/ DoScript

\* ---- the specifications

\* load_model, load_class_indices and predict calls on the singleton, their
\* statements interleaving.
Next ==
  \/ \E t \in Callers : StartLoadModel(t, ModelPaths)
  \/ \E t \in Callers : StoreModel(t)
  \/ \E t \in Callers : StoreModelPath(t)
  \/ \E t \in Callers : ReadInputShape(t)
  \/ \E t \in Callers : StoreImageSize(t)
  \/ \E t \in Callers : StartLoadClassIndices(t, LabelPaths)
  \/ \E t \in Callers : StoreClassIndices(t)
  \/ \E t \in Callers : StartPredict(t)
  \/ \E t \in Callers : PredictGuard(t)
  \/ \E t \in Callers : OpenImage(t)
  \/ \E t \in Callers : ReadImageSize(t)
  \/ \E t \in Callers : ReadModelName(t)
  \/ \E t \in Callers : ReadModelLayers(t)
  \/ \E t \in Callers : ForwardPass(t)
  \/ \E t \in Callers : TestClassIndices(t)
  \/ \E t \in Callers : GetClassName(t)
  \/ \E t \in Callers : Finish(t)

\* initialize_model and GET /health calls.
NextInit ==
  \/ \E t \in Callers : StartInitializeModel(t)
  \/ \E t \in Callers : TestModelFile(t)
  \/ \E t \in Callers : StoreModel(t)
  \/ \E t \in Callers : StoreModelPath(t)
  \/ \E t \in Callers : ReadInputShape(t)
  \/ \E t \in Callers : StoreImageSize(t)
  \/ \E t \in Callers : StoreClassIndices(t)
  \/ \E t \in Callers : ReadModelLoaded(t)
  \/ \E t \in Callers : StartHealth(t)
  \/ \E t \in Callers : EnterGetDetector(t)
  \/ \E t \in Callers : Check1(t)
  \/ \E t \in Callers : Acquire(t)
  \/ \E t \in Callers : Check2(t)
  \/ \E t \in Callers : Construct(t)
  \/ \E t \in Callers : Assign(t)
  \/ \E t \in Callers : Release(t)
  \/ \E t \in Callers : Return(t)
  \/ \E t \in Callers : GotDetector(t)
  \/ \E t \in Callers : AnswerHealth(t)
  \/ \E t \in Callers : Finish(t)

\* POST /api/initialize-model and GET /health requests.
NextView ==
  \/ \E t \in Callers : StartInitializeModelView(t)
  \/ \E t \in Callers : TestModelFile(t)
  \/ \E t \in Callers : StoreModel(t)
  \/ \E t \in Callers : StoreModelPath(t)
  \/ \E t \in Callers : ReadInputShape(t)
  \/ \E t \in Callers : StoreImageSize(t)
  \/ \E t \in Callers : StoreClassIndices(t)
  \/ \E t \in Callers : ReadModelLoaded(t)
  \/ \E t \in Callers : StartHealth(t)
  \/ \E t \in Callers : EnterGetDetector(t)
  \/ \E t \in Callers : Check1(t)
  \/ \E t \in Callers : Acquire(t)
  \/ \E t \in Callers : Check2(t)
  \/ \E t \in Callers : Construct(t)
  \/ \E t \in Callers : Assign(t)
  \/ \E t \in Callers : Release(t)
  \/ \E t \in Callers : Return(t)
  \/ \E t \in Callers : GotDetector(t)
  \/ \E t \in Callers : AnswerHealth(t)
  \/ \E t \in Callers : Finish(t)

\* predict_batch calls beside load_model and load_class_indices calls.
NextBatch ==
  \/ \E t \in Callers : StartLoadModel(t, {"m1.keras", "m2.h5"})
  \/ \E t \in Callers : StoreModel(t)
  \/ \E t \in Callers : StoreModelPath(t)
  \/ \E t \in Callers : ReadInputShape(t)
  \/ \E t \in Callers : StoreImageSize(t)
  \/ \E t \in Callers : StartLoadClassIndices(t, {"l1.json"})
  \/ \E t \in Callers : StoreClassIndices(t)
  \/ \E t \in Callers : StartPredictBatch(t)
  \/ \E t \in Callers : PredictGuard(t)
  \/ \E t \in Callers : OpenImage(t)
  \/ \E t \in Callers : ReadImageSize(t)
  \/ \E t \in Callers : ReadModelName(t)
  \/ \E t \in Callers : ReadModelLayers(t)
  \/ \E t \in Callers : ForwardPass(t)
  \/ \E t \in Callers : TestClassIndices(t)
  \/ \E t \in Callers : GetClassName(t)
  \/ \E t \in Callers : Finish(t)

\* GET / and POST / requests beside runs of the warm-up command.
NextUpload ==
  \/ \E t \in Callers : StartIndex(t)
  \/ \E t \in Callers : OpenTemp(t)
  \/ \E t \in Callers : WriteChunk(t)
  \/ \E t \in Callers : CloseTemp(t)
  \/ \E t \in Callers : EnterGetDetector(t)
  \/ \E t \in Callers : Check1(t)
  \/ \E t \in Callers : Acquire(t)
  \/ \E t \in Callers : Check2(t)
  \/ \E t \in Callers : Construct(t)
  \/ \E t \in Callers : Assign(t)
  \/ \E t \in Callers : Release(t)
  \/ \E t \in Callers : Return(t)
  \/ \E t \in Callers : GotDetector(t)
  \/ \E t \in Callers : ReadModelPath(t)
  \/ \E t \in Callers : RunSubprocess(t)
  \/ \E t \in Callers : TempExists(t)
  \/ \E t \in Callers : TempRemove(t)
  \/ \E t \in Callers : StartWarmup(t)
  \/ \E t \in Callers : WarmupReadModel(t)
  \/ \E t \in Callers : TestModelFile(t)
  \/ \E t \in Callers : StoreModel(t)
  \/ \E t \in Callers : StoreModelPath(t)
  \/ \E t \in Callers : ReadInputShape(t)
  \/ \E t \in Callers : StoreImageSize(t)
  \/ \E t \in Callers : StoreClassIndices(t)
  \/ \E t \in Callers : ReadModelLoaded(t)
  \/ \E t \in Callers : WarmupCheck(t)
  \/ \E t \in Callers : PredictGuard(t)
  \/ \E t \in Callers : OpenImage(t)
  \/ \E t \in Callers : ReadImageSize(t)
  \/ \E t \in Callers : ReadModelName(t)
  \/ \E t \in Callers : ReadModelLayers(t)
  \/ \E t \in Callers : ForwardPass(t)
  \/ \E t \in Callers : TestClassIndices(t)
  \/ \E t \in Callers : GetClassName(t)
  \/ \E t \in Callers : Finish(t)

\* Calls on the classifier singleton, their statements interleaving.
Spec == Init /\ [][Next]_vars

\* Threads racing through get_detector.
SpecCache == Init /\ [][NextCache]_vars

\* One caller at a time inside predict_via_subprocess, its child running beside it.
SpecRunner == Init /\ [][NextRunner]_vars

\* initialize_model beside the readiness endpoint.
SpecInit == Init /\ [][NextInit]_vars

\* The initialisation endpoint beside the readiness endpoint.
SpecView == Init /\ [][NextView]_vars

\* Batch predictions while models and label maps are loaded.
SpecBatch == Init /\ [][NextBatch]_vars

\* Requests to / and warm-up runs interleaving on their threads.
SpecUpload == Init /\ [][NextUpload]_vars

\* Runs of the inference child, one after another.
SpecChild == Init /\ [][NextChild]_vars

\* ------------------------------------------------------ properties

\* C1: however the threads calling get_detector interleave, PlantDiseaseDetector
\* is constructed at most once, and every call that has returned holds that one
\* instance (never None, never a second object).
C1_SingleInstance ==
  /\ built <= 1
  /\ \A t \in Threads : pc[t] = "done" => (ret[t] = 1 /\ ret[t] = detector_instance)
  /\ \A t, u \in Threads : (pc[t] = "done" /\ pc[u] = "done") => ret[t] = ret[u]

\* C1 witness: one call has returned the instance while another thread, which
\* saw None at the unlocked check, found the instance at the locked one.
C1_Witness ==
  \E t, u \in Threads :
    /\ t # u
    /\ pc[t] = "done" /\ ret[t] = 1
    /\ pc[u] = "release" /\ tmp[u] = 0

\* C2: a predict call that returns while the singleton has never held a model
\* returns the "Model not loaded" error result, whatever the image and whether
\* or not labels are loaded, and whatever the other thread does meanwhile.
C2_PredictUnloaded ==
  \A t \in Callers :
    (calls[t].op = "predict" /\ calls[t].pc = "done" /\ detector.model = "None")
      => calls[t].res = ModelNotLoaded

\* C2 witness: predict has returned with no model held, labels loaded, on an
\* image that cannot be decoded.
C2_Witness ==
  \E t \in Callers :
    /\ calls[t].op = "predict"
    /\ calls[t].pc = "done"
    /\ detector.model = "None"
    /\ detector.class_indices # "None"
    /\ calls[t].arg.image_path = "junk"

\* C3: when predict_via_subprocess has returned and its child had not exited by
\* itself, the deadline had passed, the child was terminated and the result is
\* the Timeout error; and no returned call leaves its child running.
C3_TimeoutTerminates ==
  rpc = "done" =>
    /\ child.state # "running"
    /\ child.state = "terminated" =>
         (clock = rarg.timeout /\ rout = [raised |-> FALSE, result |-> [error |-> "Timeout"]])
    /\ (rout.raised = FALSE /\ child.state # "exited") => child.state = "terminated"

\* C3 witness: a call with timeout_seconds = 1 returned Timeout, its child terminated.
C3_Witness ==
  /\ rpc = "done"
  /\ rarg.timeout = 1
  /\ child.state = "terminated"
  /\ rout.result = [error |-> "Timeout"]

\* C4: when the child exited with a non-zero status, or printed something that
\* is not JSON, predict_via_subprocess returns the SubprocessFailure error
\* result and does not raise.
C4_ChildFailureIsResult ==
  (rpc = "done" /\ child.state = "exited" /\ (child.exit # 0 \/ ~IsJson(child.stdout)))
    => rout = [raised |-> FALSE, result |-> [error |-> "SubprocessFailure"]]

\* C4 witness: a child that exited 4 after printing a JSON diagnostic.
C4_Witness ==
  /\ rpc = "done"
  /\ child.state = "exited"
  /\ child.exit = 4
  /\ IsJson(child.stdout)

\* A thread's GET /health is answered in this step.
HealthAnswered(t) == calls[t].pc = "health" /\ calls'[t].pc = "done"

\* C5: every GET /health answered while the singleton holds no model is a 503
\* with model_loaded false, and every GET /health answered after an
\* /api/initialize-model call has answered "success" is a 200 with
\* model_loaded true.
C5_Health ==
  [][\A t \in Callers :
       HealthAnswered(t) =>
         /\ detector.model = "None" =>
              (calls'[t].res.status = 503 /\ calls'[t].res.body.model_loaded = FALSE)
         /\ initOk =>
              (calls'[t].res.status = 200 /\ calls'[t].res.body.model_loaded = TRUE)]_vars

\* C5 witness: an /api/initialize-model call has answered "success" and a GET
\* /health stands answered with 200.
C5_Witness ==
  \E t, u \in Callers :
    /\ initOk
    /\ calls[u].op = "initialize_model_view"
    /\ calls[u].pc = "done"
    /\ calls[u].res.body.status = "success"
    /\ calls[t].op = "health"
    /\ calls[t].pc = "done"
    /\ calls[t].res.status = 200
    /\ calls[t].res.body.model_loaded = TRUE

\* C6 as stated: after any failed load_class_indices the label map is None.
C6_FailedLoadLeavesNone ==
  \A t \in Callers :
    (calls[t].op = "load_class_indices" /\ calls[t].pc = "done"
       /\ calls[t].res.ok = FALSE) => detector.class_indices = "None"

\* C6 as amended: a load_class_indices call that fails changes nothing in the
\* detector, label map included (so the map is None afterwards only when no
\* load has succeeded); and a prediction that returns a class while the label
\* map is None reports the label "Unknown".
C6_FailedLoadKeepsLabels ==
  /\ [][\A t \in Callers :
          (calls[t].op = "load_class_indices" /\ calls[t].pc = "class_indices"
             /\ calls'[t].pc = "done" /\ calls'[t].res.ok = FALSE)
            => detector' = detector]_vars
  /\ [](\A t \in Callers :
          (calls[t].op = "predict" /\ calls[t].pc = "done"
             /\ detector.class_indices = "None" /\ "disease" \in DOMAIN calls[t].res)
            => calls[t].res.disease = "Unknown")

\* C6 witness: a load_class_indices call has failed on a detector that holds
\* the label map of an earlier load.
C6_Witness ==
  \E t \in Callers :
    /\ calls[t].op = "load_class_indices"
    /\ calls[t].pc = "done"
    /\ calls[t].res.ok = FALSE
    /\ detector.class_indices = "l1.json"

\* C7: a load_model call returns False only from the statement that reads the
\* file, and that step changes nothing in the detector (model, model_path,
\* image_size, class_indices); the model handle is replaced only by the store
\* of a read that succeeded, in a call that goes on to return True.
C7_FailedLoadModelFrame ==
  /\ [][\A t \in Callers :
          (calls'[t].op = "load_model" /\ calls[t].pc # "done"
             /\ calls'[t].pc = "done" /\ calls'[t].res.ret = FALSE)
            => (calls[t].pc = "load_model" /\ detector' = detector)]_vars
  /\ [][detector'.model # detector.model =>
          \E t \in Callers :
            /\ calls[t].pc = "load_model"
            /\ calls'[t].pc = "model_path"
            /\ ModelPathOf(calls[t]) \in DOMAIN ModelFiles]_vars
  /\ [](\A t \in Callers :
          (calls[t].op = "load_model" /\ calls[t].pc = "done"
             /\ calls[t].arg.model_path \in DOMAIN ModelFiles)
            => calls[t].res.ret = TRUE)

\* C7 witness: load_model has failed on a detector that holds a model of
\* another path and an inferred image size.
C7_Witness ==
  \E t \in Callers :
    /\ calls[t].op = "load_model"
    /\ calls[t].pc = "done"
    /\ calls[t].res.ret = FALSE
    /\ calls[t].arg.model_path = "bad.keras"
    /\ detector.model = "M1"
    /\ detector.model_path = "m1.keras"
    /\ detector.image_size = <<128, 96>>

\* C8: a predict call on a decodable image that got scores from a forward
\* pass returns a class_index in [0, num_classes) of the model that ran it,
\* whose score is the largest, and a confidence that is the score at that
\* index, in [0,1]; on a decodable image its only error results are "Model not
\* loaded" and "Prediction failed".
C8_ArgMaxPrediction ==
  \A t \in Callers :
    (calls[t].op = "predict" /\ calls[t].pc = "done"
       /\ calls[t].arg.image_path = "leaf") =>
      LET res == calls[t].res
      IN  IF "error" \in DOMAIN res
            THEN res \in {ModelNotLoaded, [error |-> "Prediction failed"]}
            ELSE LET scores == res.all_predictions.confidence_scores
                     idx == res.all_predictions.class_index
                 IN  /\ DOMAIN res = {"disease", "confidence", "all_predictions"}
                     /\ calls[t].loc.fmodel # "None"
                     /\ Len(scores) = ModelOf(calls[t].loc.fmodel).classes
                     /\ idx \in 0..(ModelOf(calls[t].loc.fmodel).classes - 1)
                     /\ \A j \in 1..Len(scores) : scores[j] <= scores[idx + 1]
                     /\ res.confidence = scores[idx + 1]
                     /\ res.confidence >= 0 /\ res.confidence <= ScoreDen

\* C8 witness: a prediction over three classes whose largest score is neither
\* the first nor the last.
C8_Witness ==
  \E t \in Callers :
    /\ calls[t].op = "predict"
    /\ calls[t].pc = "done"
    /\ calls[t].arg.image_path = "leaf"
    /\ calls[t].loc.fmodel = "M1"
    /\ "error" \notin DOMAIN calls[t].res
    /\ calls[t].res.all_predictions.confidence_scores = <<0, ScoreDen, 1>>
    /\ calls[t].res.all_predictions.class_index = 1

\* A POST / with an upload has been answered.
UploadAnswered(c) ==
  /\ c.op = "index"
  /\ c.pc = "done"
  /\ c.arg.method = "POST"
  /\ c.arg.image # NoUpload

\* C9 as stated: a POST / with an image whose prediction came back without an
\* error is answered {success: true, predicted_class: the label of the arg-max
\* class, confidence: the arg-max score times 100}; one whose prediction
\* carries an error is answered {success: false, error: that error} and
\* nothing else.
C9_IndexResponse ==
  \A t \in Callers :
    (UploadAnswered(calls[t]) /\ calls[t].loc.prediction # NoPrediction) =>
      LET prediction == calls[t].loc.prediction
          body == calls[t].res.body
      IN  IF "error" \in DOMAIN prediction
            THEN body = [success |-> FALSE, error |-> prediction.error]
            ELSE LET scores == prediction.all_predictions.confidence_scores
                     idx == prediction.all_predictions.class_index
                     labels == ChildDetector(calls[t].loc.model_path).class_indices
                 IN  /\ body.success = TRUE
                     /\ \A j \in 1..Len(scores) : scores[j] <= scores[idx + 1]
                     /\ body.predicted_class =
                          Get(LabelFiles[labels], Str(idx), "Unknown")
                     /\ body.confidence = scores[idx + 1] * 100

C11_UnexpectedIsGeneric500 ==
  \A t \in Callers :
    /\ (UploadAnswered(calls[t]) /\ calls[t].loc.prediction = NoPrediction)
         => (calls[t].res.status = 500
             /\ calls[t].res.body.error =
                  "Server error while processing the image. Details logged.")
    /\ (calls[t].op = "initialize_model_view" /\ calls[t].pc = "done"
          /\ calls[t].arg.json /\ ~calls[t].arg.is_object)
         => (calls[t].res.status = 500
             /\ calls[t].res.body.message # ErrorMessage(ListHasNoGet))

\* C12 as stated: every run of the inference child, whatever its arguments and
\* whichever stage fails, writes exactly one JSON object to standard output.
C12_OneJsonObject ==
  last.op = "script" =>
    (Len(last.res.stdout) = 1 /\ IsJson(last.res.stdout[1]))

\* C13 as stated: POST /api/initialize-model answers "success" exactly when
\* this request loaded the model file at the requested model_path (so the
\* singleton's model_path is then the requested one), and "error" otherwise.
C13_SuccessIffLoaded ==
  \A t \in Callers :
    (calls[t].op = "initialize_model_view" /\ calls[t].pc = "done") =>
      /\ calls[t].res.body.status \in {"success", "error"}
      /\ ((calls[t].res.body.status = "success") <=>
           (/\ calls[t].arg.json
            /\ calls[t].arg.is_object
            /\ calls[t].arg.model_path \in DOMAIN ModelFiles
            /\ detector.model_path = calls[t].arg.model_path))

\* C14 as stated: an initialize_model call in which the model file or the
\* label file is absent leaves the singleton with no model.
C14_AbsentFileLeavesUnloaded ==
  \A t \in Callers :
    (calls[t].op = "initialize_model" /\ calls[t].pc = "done"
       /\ (Absent(calls[t].arg.model_path) \/ Absent(calls[t].arg.class_indices_path)))
      => detector.model = "None"

\* C14 as amended: initialize_model always returns, and returns whether the
\* singleton holds a model when it looks (its last statement).  With the model
\* file absent no step of the call touches model, model_path or image_size
\* (so the singleton stays unloaded only if nothing else loads a model); with
\* the label file absent no step of it touches the label map, and a readable
\* model file is still loaded, so the call returns True.
C14_AbsentFileKeepsState ==
  /\ [][\A t \in Callers :
          (calls'[t].op = "initialize_model" /\ calls'[t] # calls[t]) =>
            /\ Absent(calls'[t].arg.model_path) =>
                 (/\ detector'.model = detector.model
                  /\ detector'.model_path = detector.model_path
                  /\ detector'.image_size = detector.image_size)
            /\ Absent(calls'[t].arg.class_indices_path) =>
                 detector'.class_indices = detector.class_indices
            /\ (calls[t].pc # "done" /\ calls'[t].pc = "done") =>
                 calls'[t].res.ret = (detector.model # "None")]_vars
  /\ [](\A t \in Callers :
          (calls[t].op = "initialize_model" /\ calls[t].pc = "done") =>
            /\ calls[t].res.ret \in BOOLEAN
            /\ calls[t].res.ret => detector.model # "None"
            /\ calls[t].arg.model_path \in DOMAIN ModelFiles => calls[t].res.ret)

\* C14 witness: the label file is absent and the model file is read, on a
\* singleton that holds nothing else.
C14_Witness ==
  \E t \in Callers :
    /\ calls[t].op = "initialize_model"
    /\ calls[t].pc = "done"
    /\ calls[t].arg.model_path = "m1.keras"
    /\ calls[t].arg.class_indices_path = "gone.json"
    /\ calls[t].res.ret = TRUE
    /\ detector.model = "M1"
    /\ detector.class_indices = "None"

\* Every result a predict call on image_path can return, whatever model and
\* label map the singleton holds while it runs.
PredictResults(image_path) ==
  {ModelNotLoaded}
    \cup (IF image_path # "leaf"
            THEN {[error |-> "Failed to process image"]}
            ELSE {[error |-> "Prediction failed"]}
                   \cup UNION {{PredictResult(fwd.scores, name) :
                                  name \in {"Unknown"} \cup
                                    {Get(LabelFiles[l], Str(ArgMax(fwd.scores)), "Unknown") :
                                       l \in DOMAIN LabelFiles}} :
                               fwd \in UNION {{o \in CoarseOutcomes(ModelFiles[p].model) :
                                                 ~o.raise} : p \in DOMAIN ModelFiles}})

\* The results a predict_batch call holds so far.
BatchResults(c) == IF c.pc = "done" THEN c.res.results ELSE c.loc.results

\* C15: predict_batch returns one result per image path, in the order given;
\* item i is a result of predict for path i, tagged with that path; an item
\* once appended is never changed by a later item, and an error item
\* (undecodable image, no model, failed forward pass) does not end the loop;
\* and no step of the call changes the detector.
C15_BatchIsItemwise ==
  /\ [](\A t \in Callers :
          calls[t].op = "predict_batch" =>
            /\ Len(BatchResults(calls[t])) <= Len(calls[t].arg.image_paths)
            /\ calls[t].pc = "done" =>
                 Len(BatchResults(calls[t])) = Len(calls[t].arg.image_paths)
            /\ \A i \in 1..Len(BatchResults(calls[t])) :
                 \E result \in PredictResults(calls[t].arg.image_paths[i]) :
                   BatchResults(calls[t])[i] =
                     [image_path |-> calls[t].arg.image_paths[i]] @@ result)
  /\ [][\A t \in Callers :
          (calls[t].op = "predict_batch" /\ calls'[t].op = "predict_batch") =>
            /\ Len(BatchResults(calls'[t])) >= Len(BatchResults(calls[t]))
            /\ \A i \in 1..Len(BatchResults(calls[t])) :
                 BatchResults(calls'[t])[i] = BatchResults(calls[t])[i]
            /\ calls'[t] # calls[t] => detector' = detector]_vars

\* C15 witness: a batch of MaxBatch items has returned whose first item could
\* not be decoded and whose last item is classified.
C15_Witness ==
  \E t \in Callers :
    /\ calls[t].op = "predict_batch"
    /\ calls[t].pc = "done"
    /\ Len(calls[t].res.results) = MaxBatch
    /\ calls[t].arg.image_paths[1] = "junk"
    /\ "error" \in DOMAIN calls[t].res.results[1]
    /\ calls[t].arg.image_paths[MaxBatch] = "leaf"
    /\ "disease" \in DOMAIN calls[t].res.results[MaxBatch]

\* C16 as stated: the statement that ends a successful load_model, whatever
\* was loaded before, leaves image_size at the (width, height) read off the
\* declared input shape of the model whose shape the call read, and at 224x224
\* when that shape gives none.
C16_ImageSizeFromShape ==
  [][\A t \in Callers :
       (calls[t].op = "load_model" /\ calls[t].pc = "image_size"
          /\ calls'[t].pc = "done" /\ calls[t].loc.input_shape # "None")
         => detector'.image_size =
              InferImageSize(ModelOf(calls[t].loc.input_shape).input_shape,
                             <<224, 224>>)]_vars

\* Two prediction outcomes agree: both are error results, or both name the
\* same label, confidence and class index.
SameOutcome(local, inproc) ==
  IF "error" \in DOMAIN local \/ "error" \in DOMAIN inproc
    THEN "error" \in DOMAIN local /\ "error" \in DOMAIN inproc
    ELSE /\ local.disease = inproc.disease
         /\ local.confidence = inproc.confidence
         /\ local.class_index = inproc.all_predictions.class_index

\* C17 as stated: for the same model file, label file and image, the child's
\* _LocalDetector (load, preprocess, predict) and the in-process classifier end
\* the same way: the same label, confidence and class index, or an error in
\* both.
C17_ChildMatchesClassifier ==
  (last.op = "script" /\ last.arg.argv.image # "None" /\ last.arg.imports_ok) =>
    SameOutcome(LocalDetectorOutcome(last.arg.argv, last.arg.fwd),
                ClassifierOutcome(last.arg.argv, last.arg.fwd))

\* C18 as stated: while a POST / request is between saving its upload and the
\* end of its prediction, the file at its temporary path exists and holds that
\* request's own upload, whatever the other requests do.
C18_OwnUploadDuringPrediction ==
  \A t \in Callers :
    (calls[t].op = "index"
       /\ calls[t].pc \in {"get_detector", "detector_path", "subprocess"})
      => media_root[calls[t].arg.image.name] =
           [exists |-> TRUE, bytes |-> Bytes(calls[t].arg.image.chunks)]

\* C19: once the singleton holds a model, no step of any call, failed loads
\* included, takes it back to None; so once GET /health has answered 200,
\* every GET /health answered later is a 200 and never a 503.
C19_ModelStaysLoaded ==
  /\ [][detector.model # "None" => detector'.model # "None"]_vars
  /\ [][\A t \in Callers :
          (healthOk /\ HealthAnswered(t)) => calls'[t].res.status = 200]_vars

\* C19 witness: GET /health has answered 200, and an initialize_model call
\* whose model file could not be read has returned since, the singleton still
\* holding its model.
C19_Witness ==
  \E t \in Callers :
    /\ healthOk
    /\ calls[t].op = "initialize_model"
    /\ calls[t].pc = "done"
    /\ calls[t].arg.model_path = "bad.keras"
    /\ calls[t].res.ret = TRUE
    /\ detector.model = "M2"

\* C20 as stated: the child's stages run in the order arguments, imports,
\* model load, label load, predict; it exits 2 when the image argument is
\* missing, 3 when an import fails, 4 when the model load raises, 5 when predict
\* raises and 0 exactly when predict returned, the "Model not loaded" result
\* for an omitted or non-existent model path included; a label file that
\* cannot be read changes none of this; and on every non-zero exit the one
\* JSON object printed has an "error" key.
C20_StagedExitStatus ==
  last.op = "script" =>
    LET argv == last.arg.argv
        run == last.res
        loads == argv.model_path # "None" /\ Exists(argv.model_path)
        lm == IF loads THEN LocalLoadModel(LocalNewDetector, argv.model_path)
                       ELSE [raised |-> FALSE, self |-> LocalNewDetector]
        d == IF argv.class_indices_path # "None" /\ Exists(argv.class_indices_path)
               THEN LocalLoadClassIndices(lm.self, argv.class_indices_path)
               ELSE lm.self
        staged == IF argv.image = "None" THEN 2
                  ELSE IF ~last.arg.imports_ok THEN 3
                  ELSE IF lm.raised THEN 4
                  ELSE IF LocalPredict(d, argv.image, last.arg.fwd).raised THEN 5
                  ELSE 0
    IN  /\ run.exit = staged
        /\ Len(run.stdout) = 1
        /\ IsJson(run.stdout[1])
        /\ run.exit # 0 => "error" \in DOMAIN JsonLoads(run.stdout[1])
        /\ (run.exit = 0 /\ ~loads) =>
             JsonLoads(run.stdout[1]) = [error |-> "Model not loaded"]

====
